---- MODULE Spec2Model ----
(***************************************************************************)
(* A model of fd.Jacobian (src/graph/graph.go, lines 263-447): the         *)
(* orchestrator Jacobian, the serial evaluator jacobianSerial and the      *)
(* concurrent evaluator jacobianConcurrent with its worker pool, bounded   *)
(* job channel, per-column mutexes, origin task and wait group; and a      *)
(* model of graph.Copy and graph.CopyWeighted (lines 208-247), which has a *)
(* specification of its own, CopySpec.                                     *)
(*                                                                         *)
(* Numbers are exact: x, the step, the stencil offsets and coefficients    *)
(* are integers, and an entry of dst is a rational [num, den], so that     *)
(* dst.Scale(1/step, dst) is a change of the denominator.  Columns are     *)
(* numbered 1..n (the code numbers them 0..n-1).                           *)
(***************************************************************************)
EXTENDS Integers, Sequences, FiniteSets, TLC

(***************************************************************************)
(* Bounds of the model.                                                    *)
(***************************************************************************)
\* len(x) ranges over 0..MaxN and the column count of dst over 1..MaxN
MaxN == 2
\* the row count m of dst
NRows == 2
\* the source graph of Copy has the nodes 1..k for k in 0..MaxNodes
MaxNodes == 3

(***************************************************************************)
(* Nil-able Go values.  A slice that may be nil is a record [isNil, val];  *)
(* a non-nil empty slice is [isNil |-> FALSE, val |-> <<>>].               *)
(***************************************************************************)
NilSlice == [isNil |-> TRUE, val |-> <<>>]

Slice(s) == [isNil |-> FALSE, val |-> s]

\* a stencil point: Point{Loc, Coeff}
Pt(loc, coeff) == [Loc |-> loc, Coeff |-> coeff]

\* Formula{Stencil, Derivative, Step}
Fm(stencil, derivative, fstep) ==
    [Stencil |-> stencil, Derivative |-> derivative, Step |-> fstep]

\* the zero value Formula{}
ZeroFormula == Fm(NilSlice, 0, 0)

\* the step of the built-in Forward formula, in units of 1e-8
ForwardStep == 2

\* the built-in Forward formula: origin with weight -1, offset 1 with weight +1
Forward == Fm(Slice(<<Pt(0, -1), Pt(1, 1)>>), 1, ForwardStep)

\* Formula.isZero
isZero(formula) ==
    formula.Stencil.isNil /\ formula.Derivative = 0 /\ formula.Step = 0

\* the zero value JacobianSettings{} that replaces a nil settings pointer
ZeroSettings ==
    [isNil |-> FALSE, Formula |-> ZeroFormula, OriginValue |-> NilSlice,
     Step |-> 0, Concurrent |-> FALSE]

NilSettings == [ZeroSettings EXCEPT !.isNil = TRUE]

(***************************************************************************)
(* Vectors, rationals and the matrix dst (a sequence of columns, each a    *)
(* sequence of NRows rationals).                                           *)
(***************************************************************************)
Rat(num, den) == [num |-> num, den |-> den]

RatEq(a, b) == a.num * b.den = b.num * a.den

Zeros(len) == [i \in 1..len |-> 0]

\* mat64.Dense.Dims
Rows(dst) == NRows

Cols(dst) == Len(dst)

\* two matrices hold the same numbers
MatEq(a, b) ==
    /\ Len(a) = Len(b)
    /\ \A j \in 1..Len(a) :
         /\ Len(a[j]) = Len(b[j])
         /\ \A i \in 1..Len(a[j]) : RatEq(a[j][i], b[j][i])

\* floats.AddScaled(dst, alpha, s): dst[i] += alpha * s[i]
AddScaled(col, alpha, s) == [i \in 1..Len(col) |-> col[i] + alpha * s[i]]

\* Vector.AddScaledVec(col, alpha, v) on a column view of dst
AddScaledVec(col, alpha, v) ==
    [i \in 1..Len(col) |-> Rat(col[i].num + alpha * v[i] * col[i].den, col[i].den)]

\* Dense.SetCol(j, col)
SetCol(dst, j, col) ==
    [dst EXCEPT ![j] = [i \in 1..Len(col) |-> Rat(col[i], 1)]]

\* Dense.Scale(1/step, dst)
ScaleInv(dst, step) ==
    [j \in 1..Len(dst) |->
        [i \in 1..Len(dst[j]) |-> Rat(dst[j][i].num, dst[j][i].den * step)]]

\* the loops dst.Set(i, j, 0)
ZeroMat(dst) ==
    [j \in 1..Len(dst) |-> [i \in 1..Len(dst[j]) |-> Rat(0, 1)]]

(***************************************************************************)
(* The caller's function f(y, x).  Two functions are modelled:             *)
(*   "sq"       y[i] = i * sum_k x[k]^2, and x is left alone;              *)
(*   "scribble" y[i] = sum_k (i + k) * x[k], and f then zeroes its input   *)
(*              buffer.                                                    *)
(***************************************************************************)
FSel == {"sq", "scribble"}

RECURSIVE SumSq(_, _)
SumSq(xv, k) == IF k = 0 THEN 0 ELSE xv[k] * xv[k] + SumSq(xv, k - 1)

RECURSIVE SumLin(_, _, _)
SumLin(xv, i, k) == IF k = 0 THEN 0 ELSE (i + k) * xv[k] + SumLin(xv, i, k - 1)

\* the output f writes to y
F(fsel, xv) ==
    [i \in 1..NRows |->
        IF fsel = "sq" THEN i * SumSq(xv, Len(xv)) ELSE SumLin(xv, i, Len(xv))]

\* the input buffer when f returns
FInput(fsel, xv) == IF fsel = "sq" THEN xv ELSE Zeros(Len(xv))

\* copy(xcopy, x); xcopy[j] += loc * step
Perturb(xv, j, loc, step) == [xv EXCEPT ![j] = @ + loc * step]

(***************************************************************************)
(* Jacobian: validation and the resolution of the defaults.                *)
(***************************************************************************)
\* if settings == nil { settings = &JacobianSettings{} }
ResolveSettings(settings) == IF settings.isNil THEN ZeroSettings ELSE settings

\* ResolveFormula without the fallback to Forward
ResolveFormulaNoDefault(s) == s.Formula

\* formula := settings.Formula; if formula.isZero() { formula = Forward }
ResolveFormula(s) == IF isZero(s.Formula) THEN Forward ELSE s.Formula

\* step := settings.Step; if step == 0 { step = formula.Step }
ResolveStep(s) == IF s.Step = 0 THEN ResolveFormula(s).Step ELSE s.Step

\* the panic of Jacobian for the arguments (dst, x, settings); "" when none
PanicOf(dst, x, settings) ==
    LET s       == ResolveSettings(settings)
        formula == ResolveFormula(s)
    IN  IF Len(x) = 0 THEN "jacobian: x has zero length"
        ELSE IF Cols(dst) # Len(x) THEN "jacobian: mismatched matrix size"
        ELSE IF ~s.OriginValue.isNil /\ Len(s.OriginValue.val) # Rows(dst)
             THEN "jacobian: mismatched OriginValue slice length"
        ELSE IF formula.Derivative = 0 \/ formula.Stencil.isNil \/ formula.Step = 0
             THEN "jacobian: bad formula"
        ELSE IF formula.Derivative # 1 THEN "jacobian: invalid derivative order"
        ELSE ""

\* some point of the stencil has Loc = 0
HasOriginPt(stencil) == \E k \in 1..Len(stencil) : stencil[k].Loc = 0

\* evals := n * len(formula.Stencil), less n - 1 when the stencil has an origin
Evals(n, formula) ==
    n * Len(formula.Stencil.val)
      - (IF HasOriginPt(formula.Stencil.val) THEN n - 1 ELSE 0)

\* NWorkers with settings.Concurrent ignored
NWorkersAlwaysPool(concurrent, procs, evals) ==
    IF procs > evals THEN evals ELSE procs

\* nWorkers := 1, or min(GOMAXPROCS, evals) when settings.Concurrent
NWorkers(concurrent, procs, evals) ==
    IF concurrent THEN (IF procs > evals THEN evals ELSE procs) ELSE 1

(***************************************************************************)
(* jacobianSerial, computed as the code computes it.  The state s of the   *)
(* loops is [dst, origin, xcopy, y, col, fseq, cols]: fseq is the sequence *)
(* of the invocations of f ([j, loc, arg], j = 0 for the origin) and cols  *)
(* the sequence of the columns written by SetCol.                          *)
(***************************************************************************)
FCall(j, loc, arg) == [j |-> j, loc |-> loc, arg |-> arg]

\* serialPoint with the perturbation pt.Loc in place of pt.Loc * step
serialPointNoStep(f, x, step, j, pt, s) ==
    IF pt.Loc = 0
    THEN LET s1 == IF s.origin.isNil
                   THEN [s EXCEPT !.origin = Slice(F(f, x)),
                                  !.xcopy  = FInput(f, x),
                                  !.fseq   = Append(@, FCall(0, 0, x))]
                   ELSE s
         IN  [s1 EXCEPT !.col = AddScaled(@, pt.Coeff, s1.origin.val)]
    ELSE LET arg == Perturb(x, j, pt.Loc, 1)
         IN  [s EXCEPT !.xcopy = FInput(f, arg),
                       !.y     = F(f, arg),
                       !.fseq  = Append(@, FCall(j, pt.Loc, arg)),
                       !.col   = AddScaled(@, pt.Coeff, F(f, arg))]

\* serialPoint with f evaluated at x for every origin point met: no caching
serialPointNoCache(f, x, step, j, pt, s) ==
    IF pt.Loc = 0
    THEN LET s1 == [s EXCEPT !.origin = Slice(F(f, x)),
                             !.xcopy  = FInput(f, x),
                             !.fseq   = Append(@, FCall(0, 0, x))]
         IN  [s1 EXCEPT !.col = AddScaled(@, pt.Coeff, s1.origin.val)]
    ELSE LET arg == Perturb(x, j, pt.Loc, step)
         IN  [s EXCEPT !.xcopy = FInput(f, arg),
                       !.y     = F(f, arg),
                       !.fseq  = Append(@, FCall(j, pt.Loc, arg)),
                       !.col   = AddScaled(@, pt.Coeff, F(f, arg))]

\* the body of the loop over the stencil, for the point pt of column j
serialPoint(f, x, step, j, pt, s) ==
    IF pt.Loc = 0
    THEN LET s1 == IF s.origin.isNil
                   THEN [s EXCEPT !.origin = Slice(F(f, x)),
                                  !.xcopy  = FInput(f, x),
                                  !.fseq   = Append(@, FCall(0, 0, x))]
                   ELSE s
         IN  [s1 EXCEPT !.col = AddScaled(@, pt.Coeff, s1.origin.val)]
    ELSE LET arg == Perturb(x, j, pt.Loc, step)
         IN  [s EXCEPT !.xcopy = FInput(f, arg),
                       !.y     = F(f, arg),
                       !.fseq  = Append(@, FCall(j, pt.Loc, arg)),
                       !.col   = AddScaled(@, pt.Coeff, F(f, arg))]

RECURSIVE serialStencil(_, _, _, _, _, _, _)
serialStencil(f, x, step, stencil, j, k, s) ==
    IF k > Len(stencil) THEN s
    ELSE serialStencil(f, x, step, stencil, j, k + 1,
                       serialPoint(f, x, step, j, stencil[k], s))

RECURSIVE serialCols(_, _, _, _, _, _)
serialCols(f, x, step, stencil, j, s) ==
    IF j > Cols(s.dst) THEN s
    ELSE LET s1 == serialStencil(f, x, step, stencil, j, 1,
                                 [s EXCEPT !.col = Zeros(Rows(s.dst))])
         IN  serialCols(f, x, step, stencil, j + 1,
                        [s1 EXCEPT !.dst  = SetCol(@, j, s1.col),
                                   !.cols = Append(@, j)])

jacobianSerial(dst, f, x, origin, formula, step) ==
    LET s0 == [dst |-> dst, origin |-> origin, xcopy |-> Zeros(Cols(dst)),
               y |-> Zeros(Rows(dst)), col |-> Zeros(Rows(dst)),
               fseq |-> <<>>, cols |-> <<>>]
        s  == serialCols(f, x, step, formula.Stencil.val, 1, s0)
    IN  [s EXCEPT !.dst = ScaleInv(s.dst, step)]

(***************************************************************************)
(* The inputs of a call.                                                   *)
(***************************************************************************)
\* the formulas a caller passes in settings.Formula
Formulas ==
    { ZeroFormula,                                               \* unset
      Fm(Slice(<<Pt(-1, -1), Pt(0, 1)>>), 1, 1),                 \* backward
      Fm(Slice(<<Pt(-1, -1), Pt(1, 1)>>), 1, 1),                 \* two-sided
      Fm(Slice(<<Pt(0, 1), Pt(0, -2), Pt(1, 1)>>), 1, 1),        \* two origins
      Fm(Slice(<<>>), 1, 1),                                     \* empty stencil
      Fm(NilSlice, 1, 1),                                        \* nil stencil
      Fm(Slice(<<Pt(0, -1), Pt(1, 1)>>), 0, 1),                  \* order 0
      Fm(Slice(<<Pt(0, -1), Pt(1, 1)>>), 1, 0),                  \* step 0
      Fm(Slice(<<Pt(-1, 1), Pt(0, -2), Pt(1, 1)>>), 2, 1) }      \* order 2

\* the values of settings.OriginValue: nil, of length m, of length m + 1
Origins ==
    { NilSlice, Slice([i \in 1..NRows |-> 5]), Slice([i \in 1..NRows + 1 |-> 5]) }

\* the values of settings.Step: unset, or an override
Steps == {0, 3}

\* the settings a caller spells out to ask for the defaults
DefaultSettings ==
    [isNil |-> FALSE, Formula |-> Forward, OriginValue |-> NilSlice,
     Step |-> Forward.Step, Concurrent |-> FALSE]

Settings ==
    {NilSettings, DefaultSettings} \cup
    [isNil : {FALSE}, Formula : Formulas, OriginValue : Origins,
     Step : Steps, Concurrent : BOOLEAN]

\* the vector x of length n
XOf(n) == [k \in 1..n |-> k + 1]

\* a destination with c columns, holding what the caller left in it
DstOf(c) == [j \in 1..c |-> [i \in 1..NRows |-> Rat(7, 1)]]

\* the keys of the invocations of f: <<j, loc>>, <<0, 0>> for the origin
Locs == {-1, 0, 1}

Keys == (0..MaxN) \X Locs

\* the values of runtime.GOMAXPROCS(0)
Procs == {1, 2, 3}

\* the identities of the workers: nWorkers never exceeds GOMAXPROCS
Workers == 1..(CHOOSE p \in Procs : \A q \in Procs : q <= p)

NoJob == [j |-> 0, pt |-> Pt(0, 0)]

\* the identity of a slice: the routine whose make() allocated it, and the
\* variable it was assigned to; the caller's slices are x and the columns of dst
Buf(routine, id, name) == [routine |-> routine, id |-> id, name |-> name]

\* the slices of a routine that has not allocated any
NoBufs == [xcopy |-> Buf("none", 0, "xcopy"), y |-> Buf("none", 0, "y")]

\* xcopy := make([]float64, n); y := make([]float64, m) inside the worker
WorkerBufs(w) == [xcopy |-> Buf("worker", w, "xcopy"), y |-> Buf("worker", w, "y")]

\* origin = make([]float64, m); xcopy := make([]float64, n) inside the task
OriginBufs == [xcopy |-> Buf("origin", 0, "xcopy"), y |-> Buf("origin", 0, "origin")]

\* the slices the caller owns: x and the backing of the columns of dst
CallerBufs == {Buf("caller", 0, "x")} \cup {Buf("caller", j, "dst") : j \in 1..MaxN}

(***************************************************************************)
(* Graphs (lines 12-206).  A graph is its set of node IDs and its set of   *)
(* edges [F, T, W]; a Builder is a graph with the methods of NodeAdder and *)
(* EdgeAdder, specified by the comments of the interfaces.                 *)
(***************************************************************************)
NoGraph == [nodes |-> {}, edges |-> {}]

\* the weight field of an edge made by NewEdge, which has no weight
NoWeight == 0

\* EdgeAdder.NewEdge and WeightedEdgeAdder.NewWeightedEdge
NewEdge(u, v) == [F |-> u, T |-> v, W |-> NoWeight]

NewWeightedEdge(u, v, w) == [F |-> u, T |-> v, W |-> w]

\* Graph.From: the nodes that can be reached directly from u
From(g, u) == {e.T : e \in {d \in g.edges : d.F = u}}

\* Weighted.WeightedEdge(u, v).Weight()
WeightOf(g, u, v) == (CHOOSE e \in g.edges : e.F = u /\ e.T = v).W

\* NodeAdder.AddNode panics if the node ID matches an existing node ID
AddNodePanics(g, n) == n \in g.nodes

AddNode(g, n) == [g EXCEPT !.nodes = @ \cup {n}]

\* EdgeAdder.SetEdge and WeightedEdgeAdder.SetWeightedEdge: the edge is
\* added, and so are its nodes if they do not exist
SetEdge(g, e) ==
    [nodes |-> g.nodes \cup {e.F, e.T},
     edges |-> {d \in g.edges : ~(d.F = e.F /\ d.T = e.T)} \cup {e}]

\* a slice of nodes is returned in an order the interface leaves open: the
\* model takes the ascending and the descending one
Ascending(ids) ==
    CHOOSE q \in [1..Cardinality(ids) -> ids] :
        \A a, b \in 1..Cardinality(ids) : a < b => q[a] < q[b]

Descending(ids) ==
    CHOOSE q \in [1..Cardinality(ids) -> ids] :
        \A a, b \in 1..Cardinality(ids) : a < b => q[a] > q[b]

Orders(ids) == {Ascending(ids), Descending(ids)}

\* the source graphs: no edge, a path, every edge between distinct nodes
Shapes == {"empty", "path", "complete"}

SrcEdge(u, v) == NewWeightedEdge(u, v, 10 * u + v)

SrcOf(k, shape) ==
    [nodes |-> 1..k,
     edges |-> CASE shape = "empty" -> {}
                 [] shape = "path" -> {SrcEdge(u, u + 1) : u \in 1..(k - 1)}
                 [] shape = "complete" ->
                        {SrcEdge(p[1], p[2]) :
                            p \in {q \in (1..k) \X (1..k) : q[1] # q[2]}}]

SrcGraphs == {SrcOf(k, shape) : k \in 0..MaxNodes, shape \in Shapes}

\* the destinations on entry: empty, or holding the node 2 of the source,
\* or two joined nodes the source does not have, or one of each, joined
Fresh == MaxNodes + 1

DstGraphs ==
    {NoGraph,
     [nodes |-> {2}, edges |-> {}],
     [nodes |-> {Fresh, Fresh + 1},
      edges |-> {NewWeightedEdge(Fresh, Fresh + 1, 5)}],
     [nodes |-> {2, Fresh}, edges |-> {NewWeightedEdge(Fresh, 2, 5)}]}

\* an entry of the record of the calls made on dst
Call(op, e) == [op |-> op, e |-> e]

(***************************************************************************)
(* The state.                                                              *)
(***************************************************************************)
VARIABLES
    x,            \* the argument x
    f,            \* the argument f (an element of FSel)
    settings,     \* the argument settings
    gomaxprocs,   \* runtime.GOMAXPROCS(0)
    dstEntry,     \* dst as it was on entry
    dst,          \* the destination matrix
    pc,           \* where the calling goroutine is
    panicMsg,     \* the panic that ended the call, "" when none
    formula,      \* Jacobian's formula
    step,         \* Jacobian's step
    evals,        \* Jacobian's evals
    nWorkers,     \* Jacobian's nWorkers
    origin,       \* the evaluators' origin
    jobs,         \* the channel jobs: the Jobs buffered in it
    closed,       \* close(jobs) has been called
    wg,           \* the counter of the WaitGroup
    mu,           \* mu[j]: the mutex of column j is held
    spawned,      \* the workers started so far
    pi,           \* the index into formula.Stencil of the enqueue loop
    pj,           \* the column of the enqueue loop
    hasOrigin,    \* jacobianConcurrent's hasOrigin
    originCoeff,  \* jacobianConcurrent's originCoeff
    opc,          \* the origin task: "none", "running", "done"
    wpc,          \* wpc[w]: where worker w is
    wjob,         \* wjob[w]: the job worker w holds
    wxcopy,       \* wxcopy[w]: the buffer xcopy of worker w
    wy,           \* wy[w]: the buffer y of worker w
    ncalls,       \* ncalls[key]: the invocations of f made for the key
    fseq,         \* the invocations of f of the serial evaluator, in order
    cols,         \* the columns the serial evaluator wrote, in order
    wbuf,         \* wbuf[w]: the slices worker w made (lines 387-388)
    obuf,         \* the slices the origin task made (lines 423-424)
    weighted,     \* CopyWeighted is the function called, not Copy
    gsrc,         \* the argument src of Copy
    gdst,         \* the argument dst of Copy
    gdstEntry,    \* dst of Copy as it was on entry
    gpc,          \* where Copy is
    nodes,        \* Copy's nodes
    gi,           \* the index into nodes of the loop Copy is in
    vs,           \* what is left of src.From(u) in the inner loop
    calls         \* the calls Copy made on dst, in order

inputs == <<x, f, settings, gomaxprocs, dstEntry>>

locals == <<formula, step, evals, nWorkers>>

feed == <<spawned, pi, pj, hasOrigin, originCoeff>>

wvars == <<wpc, wjob, wxcopy, wy>>

hist == <<fseq, cols>>

bufs == <<wbuf, obuf>>

graph == <<weighted, gsrc, gdst, gdstEntry, gpc, nodes, gi, vs, calls>>

jacobian == <<inputs, dst, pc, panicMsg, locals, origin, jobs, closed, wg, mu,
              feed, opc, wvars, ncalls, hist, bufs>>

vars == <<jacobian, graph>>

JacobianInit ==
    /\ \E n \in 0..MaxN : x = XOf(n)
    /\ f \in FSel
    /\ settings \in Settings
    /\ gomaxprocs \in Procs
    /\ \E c \in 1..MaxN : dst = DstOf(c)
    /\ dstEntry = dst
    /\ pc = "call"
    /\ panicMsg = ""
    /\ formula = ZeroFormula
    /\ step = 0
    /\ evals = 0
    /\ nWorkers = 0
    /\ origin = NilSlice
    /\ jobs = <<>>
    /\ closed = FALSE
    /\ wg = 0
    /\ mu = [j \in 1..MaxN |-> FALSE]
    /\ spawned = 0
    /\ pi = 1
    /\ pj = 1
    /\ hasOrigin = FALSE
    /\ originCoeff = 0
    /\ opc = "none"
    /\ wpc = [w \in Workers |-> "unborn"]
    /\ wjob = [w \in Workers |-> NoJob]
    /\ wxcopy = [w \in Workers |-> <<>>]
    /\ wy = [w \in Workers |-> <<>>]
    /\ ncalls = [k \in Keys |-> 0]
    /\ fseq = <<>>
    /\ cols = <<>>
    /\ wbuf = [w \in Workers |-> NoBufs]
    /\ obuf = NoBufs

\* Copy is not being called
GraphIdle ==
    /\ weighted = FALSE
    /\ gsrc = NoGraph
    /\ gdst = NoGraph
    /\ gdstEntry = gdst
    /\ gpc = "idle"
    /\ nodes = <<>>
    /\ gi = 1
    /\ vs = <<>>
    /\ calls = <<>>

Init == JacobianInit /\ GraphIdle

(***************************************************************************)
(* Jacobian (lines 290-342).                                               *)
(***************************************************************************)
\* the invocations of f counted from a sequence of them
CountCalls(seq) ==
    [k \in Keys |-> Cardinality({q \in 1..Len(seq) : <<seq[q].j, seq[q].loc>> = k})]

\* a precondition fails: the call panics
JacobianPanic ==
    /\ pc = "call"
    /\ PanicOf(dst, x, settings) # ""
    /\ pc' = "panic"
    /\ panicMsg' = PanicOf(dst, x, settings)
    /\ UNCHANGED <<graph, bufs, inputs,
                   dst, locals, origin, jobs, closed, wg, mu, feed, opc,
                   wvars, ncalls, hist>>

\* nWorkers == 1: the whole call runs jacobianSerial
JacobianSerial ==
    /\ pc = "call"
    /\ PanicOf(dst, x, settings) = ""
    /\ LET s  == ResolveSettings(settings)
           fm == ResolveFormula(s)
           st == ResolveStep(s)
           ev == Evals(Len(x), fm)
           nw == NWorkers(s.Concurrent, gomaxprocs, ev)
           r  == jacobianSerial(dst, f, x, s.OriginValue, fm, st)
       IN  /\ nw = 1
           /\ formula' = fm
           /\ step' = st
           /\ evals' = ev
           /\ nWorkers' = nw
           /\ dst' = r.dst
           /\ origin' = r.origin
           /\ fseq' = r.fseq
           /\ cols' = r.cols
           /\ ncalls' = CountCalls(r.fseq)
    /\ pc' = "done"
    /\ UNCHANGED <<graph, bufs, inputs,
                   panicMsg, jobs, closed, wg, mu, feed, opc, wvars>>

\* nWorkers != 1: the call enters jacobianConcurrent
JacobianConcurrent ==
    /\ pc = "call"
    /\ PanicOf(dst, x, settings) = ""
    /\ LET s  == ResolveSettings(settings)
           fm == ResolveFormula(s)
           st == ResolveStep(s)
           ev == Evals(Len(x), fm)
           nw == NWorkers(s.Concurrent, gomaxprocs, ev)
       IN  /\ nw # 1
           /\ formula' = fm
           /\ step' = st
           /\ evals' = ev
           /\ nWorkers' = nw
           /\ origin' = s.OriginValue
    /\ pc' = "zero"
    /\ UNCHANGED <<graph, bufs, inputs,
                   dst, panicMsg, jobs, closed, wg, mu, feed, opc, wvars,
                   ncalls, hist>>

(***************************************************************************)
(* jacobianConcurrent: the calling goroutine (lines 373-443).              *)
(***************************************************************************)
Stencil == formula.Stencil.val

\* ZeroDst that leaves dst as the caller passed it
ZeroDstSkipped ==
    /\ pc = "zero"
    /\ dst' = dst
    /\ pc' = "feed"
    /\ UNCHANGED <<graph, bufs, inputs,
                   panicMsg, locals, origin, jobs, closed, wg, mu, feed,
                   opc, wvars, ncalls, hist>>

\* lines 374-384: dst is zeroed, the WaitGroup and the mutexes are made
ZeroDst ==
    /\ pc = "zero"
    /\ dst' = ZeroMat(dst)
    /\ pc' = "feed"
    /\ UNCHANGED <<graph, bufs, inputs,
                   panicMsg, locals, origin, jobs, closed, wg, mu, feed,
                   opc, wvars, ncalls, hist>>

\* Spawn with xcopy and y made once, outside the worker
SpawnSharedBuffers ==
    /\ pc = "feed"
    /\ spawned < nWorkers
    /\ wg' = wg + 1
    /\ spawned' = spawned + 1
    /\ wpc' = [wpc EXCEPT ![spawned + 1] = "recv"]
    /\ wxcopy' = [wxcopy EXCEPT ![spawned + 1] = Zeros(Cols(dst))]
    /\ wy' = [wy EXCEPT ![spawned + 1] = Zeros(Rows(dst))]
    /\ wbuf' = [wbuf EXCEPT ![spawned + 1] =
                   [xcopy |-> Buf("main", 0, "xcopy"), y |-> Buf("main", 0, "y")]]
    /\ UNCHANGED <<graph, obuf, inputs,
                   dst, pc, panicMsg, locals, origin, jobs, closed, mu,
                   pi, pj, hasOrigin, originCoeff, opc, wjob, ncalls, hist>>

\* lines 401-404: wg.Add(1); go worker(jobs)
Spawn ==
    /\ pc = "feed"
    /\ spawned < nWorkers
    /\ wg' = wg + 1
    /\ spawned' = spawned + 1
    /\ wpc' = [wpc EXCEPT ![spawned + 1] = "recv"]
    /\ wxcopy' = [wxcopy EXCEPT ![spawned + 1] = Zeros(Cols(dst))]
    /\ wy' = [wy EXCEPT ![spawned + 1] = Zeros(Rows(dst))]
    /\ wbuf' = [wbuf EXCEPT ![spawned + 1] = WorkerBufs(spawned + 1)]
    /\ UNCHANGED <<graph, obuf, inputs,
                   dst, pc, panicMsg, locals, origin, jobs, closed, mu,
                   pi, pj, hasOrigin, originCoeff, opc, wjob, ncalls, hist>>

\* lines 409-414: the loop over the stencil meets a point with Loc == 0
ScanOrigin ==
    /\ pc = "feed"
    /\ spawned >= nWorkers
    /\ pi <= Len(Stencil)
    /\ Stencil[pi].Loc = 0
    /\ hasOrigin' = TRUE
    /\ originCoeff' = Stencil[pi].Coeff
    /\ pi' = pi + 1
    /\ UNCHANGED <<graph, bufs, inputs,
                   dst, pc, panicMsg, locals, origin, jobs, closed, wg, mu,
                   spawned, pj, opc, wvars, ncalls, hist>>

\* lines 415-417: jobs <- jacJob{j, pt}, which blocks while the buffer is full
Enqueue ==
    /\ pc = "feed"
    /\ spawned >= nWorkers
    /\ pi <= Len(Stencil)
    /\ Stencil[pi].Loc # 0
    /\ Len(jobs) < nWorkers
    /\ jobs' = Append(jobs, [j |-> pj, pt |-> Stencil[pi]])
    /\ IF pj < Cols(dst)
       THEN pj' = pj + 1 /\ pi' = pi
       ELSE pj' = 1 /\ pi' = pi + 1
    /\ UNCHANGED <<graph, bufs, inputs,
                   dst, pc, panicMsg, locals, origin, closed, wg, mu,
                   spawned, hasOrigin, originCoeff, opc, wvars, ncalls, hist>>

\* StartOrigin with the origin task started whenever the stencil has an origin
StartOriginAlways ==
    /\ pc = "feed"
    /\ spawned >= nWorkers
    /\ pi > Len(Stencil)
    /\ IF hasOrigin
       THEN wg' = wg + 1 /\ opc' = "running" /\ obuf' = OriginBufs
       ELSE UNCHANGED <<wg, opc, obuf>>
    /\ pc' = "close"
    /\ UNCHANGED <<graph, wbuf, inputs,
                   dst, panicMsg, locals, origin, jobs, closed, mu, feed,
                   wvars, ncalls, hist>>

\* lines 419-428: after the loop, the origin task is started when it is needed
StartOrigin ==
    /\ pc = "feed"
    /\ spawned >= nWorkers
    /\ pi > Len(Stencil)
    /\ IF hasOrigin /\ origin.isNil
       THEN wg' = wg + 1 /\ opc' = "running" /\ obuf' = OriginBufs
       ELSE UNCHANGED <<wg, opc, obuf>>
    /\ pc' = "close"
    /\ UNCHANGED <<graph, wbuf, inputs,
                   dst, panicMsg, locals, origin, jobs, closed, mu, feed,
                   wvars, ncalls, hist>>

\* Close that leaves the channel open
CloseForgotten ==
    /\ pc = "close"
    /\ pc' = "wait"
    /\ UNCHANGED <<graph, bufs, inputs,
                   dst, panicMsg, locals, origin, jobs, closed, wg, mu,
                   feed, opc, wvars, ncalls, hist>>

\* line 429: close(jobs)
Close ==
    /\ pc = "close"
    /\ closed' = TRUE
    /\ pc' = "wait"
    /\ UNCHANGED <<graph, bufs, inputs,
                   dst, panicMsg, locals, origin, jobs, wg, mu, feed, opc,
                   wvars, ncalls, hist>>

\* Wait that returns whatever the counter is
WaitNoBarrier ==
    /\ pc = "wait"
    /\ pc' = "fold"
    /\ UNCHANGED <<graph, bufs, inputs,
                   dst, panicMsg, locals, origin, jobs, closed, wg, mu,
                   feed, opc, wvars, ncalls, hist>>

\* line 430: wg.Wait() returns once the counter is zero
Wait ==
    /\ pc = "wait"
    /\ wg = 0
    /\ pc' = "fold"
    /\ UNCHANGED <<graph, bufs, inputs,
                   dst, panicMsg, locals, origin, jobs, closed, wg, mu,
                   feed, opc, wvars, ncalls, hist>>

\* Fold with the origin added unweighted
FoldUnweighted ==
    /\ pc = "fold"
    /\ dst' = IF hasOrigin
              THEN [j \in 1..Cols(dst) |-> AddScaledVec(dst[j], 1, origin.val)]
              ELSE dst
    /\ pc' = "scale"
    /\ UNCHANGED <<graph, bufs, inputs,
                   panicMsg, locals, origin, jobs, closed, wg, mu, feed,
                   opc, wvars, ncalls, hist>>

\* lines 432-440: the scaled origin is added to every column
Fold ==
    /\ pc = "fold"
    /\ dst' = IF hasOrigin
              THEN [j \in 1..Cols(dst) |->
                       AddScaledVec(dst[j], originCoeff, origin.val)]
              ELSE dst
    /\ pc' = "scale"
    /\ UNCHANGED <<graph, bufs, inputs,
                   panicMsg, locals, origin, jobs, closed, wg, mu, feed,
                   opc, wvars, ncalls, hist>>

\* line 442: dst.Scale(1/step, dst)
Scale ==
    /\ pc = "scale"
    /\ dst' = ScaleInv(dst, step)
    /\ pc' = "done"
    /\ UNCHANGED <<graph, bufs, inputs,
                   panicMsg, locals, origin, jobs, closed, wg, mu, feed,
                   opc, wvars, ncalls, hist>>

(***************************************************************************)
(* The origin task (lines 421-427).                                        *)
(***************************************************************************)
OriginEval ==
    /\ opc = "running"
    /\ origin' = Slice(F(f, x))
    /\ ncalls' = [ncalls EXCEPT ![<<0, 0>>] = @ + 1]
    /\ wg' = wg - 1
    /\ opc' = "done"
    /\ UNCHANGED <<graph, bufs, inputs,
                   dst, pc, panicMsg, locals, jobs, closed, mu, feed,
                   wvars, hist>>

(***************************************************************************)
(* A worker (lines 385-399).                                               *)
(***************************************************************************)
\* WorkerRecv without copy(xcopy, x)
WorkerRecvStale(w) ==
    /\ wpc[w] = "recv"
    /\ jobs # <<>>
    /\ LET job == Head(jobs)
       IN  /\ wjob' = [wjob EXCEPT ![w] = job]
           /\ wxcopy' = [wxcopy EXCEPT
                            ![w] = Perturb(wxcopy[w], job.j, job.pt.Loc, step)]
           /\ ncalls' = [ncalls EXCEPT ![<<job.j, job.pt.Loc>>] = @ + 1]
    /\ jobs' = Tail(jobs)
    /\ wpc' = [wpc EXCEPT ![w] = "inF"]
    /\ UNCHANGED <<graph, bufs, inputs,
                   dst, pc, panicMsg, locals, origin, closed, wg, mu, feed,
                   opc, wy, hist>>

\* lines 390-393: a job is received, x is copied and perturbed, f is called
WorkerRecv(w) ==
    /\ wpc[w] = "recv"
    /\ jobs # <<>>
    /\ LET job == Head(jobs)
       IN  /\ wjob' = [wjob EXCEPT ![w] = job]
           /\ wxcopy' = [wxcopy EXCEPT ![w] = Perturb(x, job.j, job.pt.Loc, step)]
           /\ ncalls' = [ncalls EXCEPT ![<<job.j, job.pt.Loc>>] = @ + 1]
    /\ jobs' = Tail(jobs)
    /\ wpc' = [wpc EXCEPT ![w] = "inF"]
    /\ UNCHANGED <<graph, bufs, inputs,
                   dst, pc, panicMsg, locals, origin, closed, wg, mu, feed,
                   opc, wy, hist>>

\* line 393: f returns, having written y
WorkerEval(w) ==
    /\ wpc[w] = "inF"
    /\ wy' = [wy EXCEPT ![w] = F(f, wxcopy[w])]
    /\ wxcopy' = [wxcopy EXCEPT ![w] = FInput(f, wxcopy[w])]
    /\ wpc' = [wpc EXCEPT ![w] = "lock"]
    /\ UNCHANGED <<graph, bufs, inputs,
                   dst, pc, panicMsg, locals, origin, jobs, closed, wg, mu,
                   feed, opc, wjob, ncalls, hist>>

\* WorkerLock that does not wait for the mutex to be free
WorkerLockNoWait(w) ==
    /\ wpc[w] = "lock"
    /\ mu' = [mu EXCEPT ![wjob[w].j] = TRUE]
    /\ wpc' = [wpc EXCEPT ![w] = "locked"]
    /\ UNCHANGED <<graph, bufs, inputs,
                   dst, pc, panicMsg, locals, origin, jobs, closed, wg,
                   feed, opc, wjob, wxcopy, wy, ncalls, hist>>

\* line 395: mu[job.j].Lock()
WorkerLock(w) ==
    /\ wpc[w] = "lock"
    /\ ~mu[wjob[w].j]
    /\ mu' = [mu EXCEPT ![wjob[w].j] = TRUE]
    /\ wpc' = [wpc EXCEPT ![w] = "locked"]
    /\ UNCHANGED <<graph, bufs, inputs,
                   dst, pc, panicMsg, locals, origin, jobs, closed, wg,
                   feed, opc, wjob, wxcopy, wy, ncalls, hist>>

\* WorkerAdd without mu[job.j].Unlock()
WorkerAddNoUnlock(w) ==
    /\ wpc[w] = "locked"
    /\ dst' = [dst EXCEPT ![wjob[w].j] = AddScaledVec(@, wjob[w].pt.Coeff, wy[w])]
    /\ wjob' = [wjob EXCEPT ![w] = NoJob]
    /\ wpc' = [wpc EXCEPT ![w] = "recv"]
    /\ UNCHANGED <<graph, bufs, inputs,
                   pc, panicMsg, locals, origin, jobs, closed, wg, mu, feed,
                   opc, wxcopy, wy, ncalls, hist>>

\* lines 396-397: col.AddScaledVec(col, job.pt.Coeff, yVec); mu[job.j].Unlock()
WorkerAdd(w) ==
    /\ wpc[w] = "locked"
    /\ dst' = [dst EXCEPT ![wjob[w].j] = AddScaledVec(@, wjob[w].pt.Coeff, wy[w])]
    /\ mu' = [mu EXCEPT ![wjob[w].j] = FALSE]
    /\ wjob' = [wjob EXCEPT ![w] = NoJob]
    /\ wpc' = [wpc EXCEPT ![w] = "recv"]
    /\ UNCHANGED <<graph, bufs, inputs,
                   pc, panicMsg, locals, origin, jobs, closed, wg, feed,
                   opc, wxcopy, wy, ncalls, hist>>

\* WorkerExit that leaves the loop as soon as the channel is closed
WorkerExitOnClose(w) ==
    /\ wpc[w] = "recv"
    /\ closed
    /\ wg' = wg - 1
    /\ wpc' = [wpc EXCEPT ![w] = "done"]
    /\ UNCHANGED <<graph, bufs, inputs,
                   dst, pc, panicMsg, locals, origin, jobs, closed, mu,
                   feed, opc, wjob, wxcopy, wy, ncalls, hist>>

\* lines 390, 386: the channel is closed and drained; wg.Done()
WorkerExit(w) ==
    /\ wpc[w] = "recv"
    /\ jobs = <<>>
    /\ closed
    /\ wg' = wg - 1
    /\ wpc' = [wpc EXCEPT ![w] = "done"]
    /\ UNCHANGED <<graph, bufs, inputs,
                   dst, pc, panicMsg, locals, origin, jobs, closed, mu,
                   feed, opc, wjob, wxcopy, wy, ncalls, hist>>

Worker(w) ==
    \/ WorkerRecv(w)
    \/ WorkerEval(w)
    \/ WorkerLock(w)
    \/ WorkerAdd(w)
    \/ WorkerExit(w)

Next ==
    \/ JacobianPanic
    \/ JacobianSerial
    \/ JacobianConcurrent
    \/ ZeroDst
    \/ Spawn
    \/ ScanOrigin
    \/ Enqueue
    \/ StartOrigin
    \/ Close
    \/ Wait
    \/ Fold
    \/ Scale
    \/ OriginEval
    \/ \E w \in Workers : Worker(w)

Spec == Init /\ [][Next]_vars

\* the steps of the calling goroutine inside jacobianConcurrent
Orchestrate ==
    \/ ZeroDst
    \/ Spawn
    \/ ScanOrigin
    \/ Enqueue
    \/ StartOrigin
    \/ Close
    \/ Wait
    \/ Fold
    \/ Scale

\* the Go scheduler runs every goroutine that can take a step, and f returns
Fairness ==
    /\ WF_vars(Orchestrate)
    /\ WF_vars(OriginEval)
    /\ \A w \in Workers : WF_vars(Worker(w))

\* the inputs of the fair runs: termination does not depend on the numbers,
\* so f, the step and the sizes that only select a panic are fixed
FairInit ==
    /\ Init
    /\ f = "sq"
    /\ settings.Step = 0
    /\ Len(settings.OriginValue.val) <= NRows
    /\ Len(x) \in {0, Cols(dst)}

FairSpec == FairInit /\ [][Next]_vars /\ Fairness

(***************************************************************************)
(* Copy and CopyWeighted (lines 208-247).  The two functions differ in the *)
(* edge they set only, so one set of actions models both, with weighted    *)
(* saying which of them was called.                                        *)
(***************************************************************************)
\* Jacobian is not being called
JacobianIdle ==
    /\ JacobianInit
    /\ x = <<>>
    /\ f = "sq"
    /\ settings = NilSettings
    /\ gomaxprocs = 1
    /\ Cols(dst) = 1

CopyInit ==
    /\ weighted \in BOOLEAN
    /\ gsrc \in SrcGraphs
    /\ gdst \in DstGraphs
    /\ gdstEntry = gdst
    /\ gpc = "call"
    /\ nodes = <<>>
    /\ gi = 1
    /\ vs = <<>>
    /\ calls = <<>>
    /\ JacobianIdle

\* CopyNodes that skips the loop of AddNode
CopyNodesOnlyEdges ==
    /\ gpc = "call"
    /\ nodes' \in Orders(gsrc.nodes)
    /\ gi' = 1
    /\ gpc' = "from"
    /\ UNCHANGED <<jacobian, weighted, gsrc, gdst, gdstEntry, vs, calls>>

\* lines 215, 238: nodes := src.Nodes()
CopyNodes ==
    /\ gpc = "call"
    /\ nodes' \in Orders(gsrc.nodes)
    /\ gi' = 1
    /\ gpc' = "add"
    /\ UNCHANGED <<jacobian, weighted, gsrc, gdst, gdstEntry, vs, calls>>

\* lines 216-217, 239-240: dst.AddNode(n), which panics on an ID dst has
CopyAddNode ==
    /\ gpc = "add"
    /\ gi <= Len(nodes)
    /\ calls' = Append(calls, Call("AddNode", NewEdge(nodes[gi], nodes[gi])))
    /\ IF AddNodePanics(gdst, nodes[gi])
       THEN gpc' = "panic" /\ UNCHANGED <<gdst, gi>>
       ELSE gdst' = AddNode(gdst, nodes[gi]) /\ gi' = gi + 1 /\ gpc' = gpc
    /\ UNCHANGED <<jacobian, weighted, gsrc, gdstEntry, nodes, vs>>

\* lines 218-219, 241-242: the first loop ends, the second begins
CopyAdded ==
    /\ gpc = "add"
    /\ gi > Len(nodes)
    /\ gi' = 1
    /\ gpc' = "from"
    /\ UNCHANGED <<jacobian, weighted, gsrc, gdst, gdstEntry, nodes, vs, calls>>

\* lines 219-220, 242-243: for _, v := range src.From(u)
CopyFrom ==
    /\ gpc = "from"
    /\ gi <= Len(nodes)
    /\ vs' \in Orders(From(gsrc, nodes[gi]))
    /\ gpc' = "set"
    /\ UNCHANGED <<jacobian, weighted, gsrc, gdst, gdstEntry, nodes, gi, calls>>

\* lines 221, 244: dst.SetEdge(dst.NewEdge(u, v)), or
\* dst.SetWeightedEdge(dst.NewWeightedEdge(u, v, src.WeightedEdge(u, v).Weight()))
CopySetEdge ==
    /\ gpc = "set"
    /\ vs # <<>>
    /\ LET u == nodes[gi]
           v == Head(vs)
           e == IF weighted
                THEN NewWeightedEdge(u, v, WeightOf(gsrc, u, v))
                ELSE NewEdge(u, v)
       IN  /\ gdst' = SetEdge(gdst, e)
           /\ calls' = Append(calls, Call("SetEdge", e))
    /\ vs' = Tail(vs)
    /\ UNCHANGED <<jacobian, weighted, gsrc, gdstEntry, gpc, nodes, gi>>

\* lines 222, 245: the inner loop ends, the outer loop goes on
CopyNextNode ==
    /\ gpc = "set"
    /\ vs = <<>>
    /\ gi' = gi + 1
    /\ gpc' = "from"
    /\ UNCHANGED <<jacobian, weighted, gsrc, gdst, gdstEntry, nodes, vs, calls>>

\* lines 223-224, 246-247: the outer loop ends and Copy returns
CopyReturn ==
    /\ gpc = "from"
    /\ gi > Len(nodes)
    /\ gpc' = "done"
    /\ UNCHANGED <<jacobian, weighted, gsrc, gdst, gdstEntry, nodes, gi, vs, calls>>

CopyNext ==
    \/ CopyNodes
    \/ CopyAddNode
    \/ CopyAdded
    \/ CopyFrom
    \/ CopySetEdge
    \/ CopyNextNode
    \/ CopyReturn

CopySpec == CopyInit /\ [][CopyNext]_vars

(***************************************************************************)
(* Properties.                                                             *)
(***************************************************************************)
\* the settings after the nil pointer is replaced
S == ResolveSettings(settings)

\* the stencil holds at most one point with Loc = 0 (the invariant of Formula)
AtMostOneOrigin(stencil) ==
    Cardinality({k \in 1..Len(stencil) : stencil[k].Loc = 0}) <= 1

\* the call went through jacobianConcurrent and has returned
ConcurrentDone == pc = "done" /\ nWorkers # 1

\* the call went through jacobianSerial and has returned
SerialDone == pc = "done" /\ nWorkers = 1

\* C1: for a stencil with at most one origin point, whatever the interleaving
\* of the workers and the origin task, the matrix jacobianConcurrent returns
\* holds the same numbers as the matrix jacobianSerial returns for the same
\* dst, f, x, origin, formula and step.
ConcurrentEqualsSerial ==
    (ConcurrentDone /\ AtMostOneOrigin(Stencil))
        => MatEq(dst, jacobianSerial(dstEntry, f, x, S.OriginValue, formula, step).dst)

\* a concurrent call over two columns with three workers returned, the origin
\* having been evaluated by the origin task
ConcurrentEqualsSerialWitness ==
    /\ ConcurrentDone
    /\ AtMostOneOrigin(Stencil)
    /\ nWorkers = 3
    /\ Len(x) = 2
    /\ opc = "done"

\* the value the origin point contributes in row i
OriginTerm(i) ==
    IF S.OriginValue.isNil THEN F(f, x)[i] ELSE S.OriginValue.val[i]

\* sum over the stencil points k..1 of weight * f(x + offset*step*e_j), row i
RECURSIVE StencilSum(_, _, _)
StencilSum(j, i, k) ==
    IF k = 0 THEN 0
    ELSE LET pt == Stencil[k]
         IN  pt.Coeff * (IF pt.Loc = 0 THEN OriginTerm(i)
                         ELSE F(f, Perturb(x, j, pt.Loc, step))[i])
               + StencilSum(j, i, k - 1)

\* C2: when a call returns, through either evaluator, entry (i, j) of dst is
\* (1/step) * sum over the stencil points of weight * f(x + offset*step*e_j),
\* the origin point contributing weight * f(x) or weight * the precomputed
\* origin, and f has been invoked exactly once for each column and each
\* non-origin point (in the concurrent evaluator: for a stencil with at most
\* one origin point).
ColumnsAreStencilSums ==
    (pc = "done" /\ (nWorkers = 1 \/ AtMostOneOrigin(Stencil)))
        => /\ \A j \in 1..Cols(dst) : \A i \in 1..NRows :
                RatEq(dst[j][i], Rat(StencilSum(j, i, Len(Stencil)), step))
           /\ \A j \in 1..Cols(dst) : \A k \in 1..Len(Stencil) :
                Stencil[k].Loc # 0 => ncalls[<<j, Stencil[k].Loc>>] = 1

\* both evaluators returned a matrix of two columns for a stencil with an
\* origin point and a step override
ColumnsAreStencilSumsWitness ==
    /\ pc = "done"
    /\ Len(x) = 2
    /\ HasOriginPt(Stencil)
    /\ AtMostOneOrigin(Stencil)
    /\ S.Step # 0
    /\ ncalls[<<2, 1>>] = 1

\* the formula Jacobian resolves from the settings
Resolved == ResolveFormula(S)

\* no invocation of f, no worker, no origin task, and dst as on entry
Untouched ==
    /\ \A k \in Keys : ncalls[k] = 0
    /\ fseq = <<>>
    /\ spawned = 0
    /\ \A w \in Workers : wpc[w] = "unborn"
    /\ opc = "none"
    /\ dst = dstEntry

\* a precondition of Jacobian, as the specification lists them, is violated
PreconditionViolated ==
    \/ Len(x) = 0
    \/ Cols(dstEntry) # Len(x)
    \/ ~S.OriginValue.isNil /\ Len(S.OriginValue.val) # Rows(dstEntry)
    \/ Resolved.Derivative = 0
    \/ Len(Resolved.Stencil.val) = 0
    \/ Resolved.Step = 0
    \/ Resolved.Derivative # 1

\* C3: a call that violates a precondition (empty x, column count of dst other
\* than len(x), precomputed origin of the wrong length, bad formula, derivative
\* order other than 1) can only abort, and when it has, f has not been invoked,
\* no worker or task has been started and dst is as it was on entry.
ViolationAbortsUntouched ==
    (PreconditionViolated /\ pc # "call") => (pc = "panic" /\ Untouched)

\* C4: a call whose resolved formula has a derivative order other than 1, a
\* stencil of zero points (nil or empty) or a zero step never gets past the
\* validation: it reaches neither evaluator.
BadFormulaAborts ==
    (\/ Resolved.Derivative # 1
     \/ Len(Resolved.Stencil.val) = 0
     \/ Resolved.Step = 0)
        => pc \in {"call", "panic"}

\* n * |stencil| - (n - 1 if the stencil has an origin point)
EvalsOf(n, stencil) ==
    n * Len(stencil)
      - (IF \E k \in 1..Len(stencil) : stencil[k].Loc = 0 THEN n - 1 ELSE 0)

\* C5: once a call has passed the validation, nWorkers is at most
\* evals = n * |stencil| - (n - 1 if the stencil has an origin point); it is
\* min(GOMAXPROCS, evals) when concurrency is requested and 1 when it is not.
WorkerCountWithinEvals ==
    (pc \notin {"call", "panic"})
        => /\ evals = EvalsOf(Len(x), Stencil)
           /\ nWorkers <= evals
           /\ S.Concurrent =>
                nWorkers = (IF gomaxprocs < evals THEN gomaxprocs ELSE evals)
           /\ ~S.Concurrent => nWorkers = 1

\* the sum of the weights of the origin points among the points k..1
RECURSIVE OriginWeight(_)
OriginWeight(k) ==
    IF k = 0 THEN 0
    ELSE (IF Stencil[k].Loc = 0 THEN Stencil[k].Coeff ELSE 0) + OriginWeight(k - 1)

\* the sum over the non-origin points k..1 of weight * f(x + offset*step*e_j)
RECURSIVE PerturbedSum(_, _, _)
PerturbedSum(j, i, k) ==
    IF k = 0 THEN 0
    ELSE (IF Stencil[k].Loc = 0 THEN 0
          ELSE Stencil[k].Coeff * F(f, Perturb(x, j, Stencil[k].Loc, step))[i])
           + PerturbedSum(j, i, k - 1)

\* every column of dst holds its perturbed sum plus the weighted vector v,
\* over step
OriginFoldedAs(v) ==
    \A j \in 1..Cols(dst) : \A i \in 1..NRows :
        RatEq(dst[j][i],
              Rat(PerturbedSum(j, i, Len(Stencil)) + OriginWeight(Len(Stencil)) * v[i],
                  step))

\* C6: when settings.OriginValue is supplied, f is never invoked at x, by
\* either evaluator, and no origin task is started; the evaluators' origin
\* stays the supplied value, which is what every column receives as the
\* origin's contribution.
SuppliedOriginNotEvaluated ==
    ~S.OriginValue.isNil
        => /\ ncalls[<<0, 0>>] = 0
           /\ opc = "none"
           /\ \A q \in 1..Len(fseq) : fseq[q].j # 0 /\ fseq[q].arg # x
           /\ \A w \in Workers : wpc[w] = "inF" => wxcopy[w] # x
           /\ pc \notin {"call", "panic"} => origin = S.OriginValue
           /\ (pc = "done" /\ (nWorkers = 1 \/ AtMostOneOrigin(Stencil)))
                => OriginFoldedAs(S.OriginValue.val)

\* a concurrent call with a supplied origin and a stencil with an origin point
\* has returned
SuppliedOriginNotEvaluatedWitness ==
    /\ ~S.OriginValue.isNil
    /\ ConcurrentDone
    /\ hasOrigin
    /\ AtMostOneOrigin(Stencil)
    /\ Len(x) = 2

\* the call is valid, its stencil has an origin point and no origin is supplied
OriginNeeded ==
    /\ PanicOf(dstEntry, x, settings) = ""
    /\ HasOriginPt(Resolved.Stencil.val)
    /\ S.OriginValue.isNil

\* the index of the first origin point of the stencil
FirstOrigin(stencil) ==
    CHOOSE k \in 1..Len(stencil) :
        stencil[k].Loc = 0 /\ \A q \in 1..(k - 1) : stencil[q].Loc # 0

\* C7: when the stencil has an origin point and no origin is supplied, f is
\* invoked at x at most once during the call and exactly once by its return:
\* by jacobianSerial when the first column first needs it, by
\* jacobianConcurrent in the origin task, started after the enqueue loop; the
\* value f(x) is then what every column receives as the origin's contribution.
OriginEvaluatedOnce ==
    OriginNeeded
        => /\ ncalls[<<0, 0>>] <= 1
           /\ pc = "done" => (ncalls[<<0, 0>>] = 1 /\ origin = Slice(F(f, x)))
           /\ SerialDone =>
                /\ Cardinality({q \in 1..Len(fseq) : fseq[q].j = 0}) = 1
                /\ fseq[FirstOrigin(Stencil)] = FCall(0, 0, x)
           /\ (nWorkers # 1 /\ pc \in {"zero", "feed"}) => opc = "none"
           /\ (nWorkers # 1 /\ pc \in {"fold", "scale", "done"}) => opc = "done"
           /\ (pc = "done" /\ (nWorkers = 1 \/ AtMostOneOrigin(Stencil)))
                => OriginFoldedAs(F(f, x))

\* the serial evaluator has filled two columns, both needing the origin
OriginEvaluatedOnceWitness ==
    /\ OriginNeeded
    /\ SerialDone
    /\ Len(x) = 2
    /\ Len(fseq) >= 3

\* worker w has been started and has not returned
Running(w) == wpc[w] \notin {"unborn", "done"}

\* no two workers hold the mutex of one column, and a held mutex has a holder
LockExclusion ==
    /\ \A v, w \in Workers :
         (v # w /\ wpc[v] = "locked" /\ wpc[w] = "locked") => wjob[v].j # wjob[w].j
    /\ \A j \in 1..MaxN :
         mu[j] <=> \E w \in Workers : wpc[w] = "locked" /\ wjob[w].j = j

\* a step that changes dst while a worker runs is the accumulate-add of a
\* worker that holds the mutex of the one column the step changes
LockedWrite ==
    ((\E w \in Workers : Running(w)) /\ dst' # dst)
        => \E w \in Workers :
             /\ wpc[w] = "locked"
             /\ mu[wjob[w].j]
             /\ wpc'[w] = "recv"
             /\ \A j \in 1..Cols(dst) : j # wjob[w].j => dst'[j] = dst[j]

\* C8: while the workers run, no two of them are inside the accumulate-add of
\* the same column at once, and every write to a column of dst is made by a
\* worker that holds the mutex of that column.
ColumnWritesLocked == [](LockExclusion) /\ [][LockedWrite]_vars

\* a worker holds the mutex of a column while another waits for it
ColumnWritesLockedWitness ==
    \E v, w \in Workers :
        /\ v # w
        /\ wpc[v] = "locked"
        /\ wpc[w] = "lock"
        /\ wjob[v].j = wjob[w].j

\* jacobianConcurrent has returned: the channel is closed and drained, every
\* worker and the origin task have finished, the barrier has been passed
Returned ==
    /\ pc = "done"
    /\ closed
    /\ jobs = <<>>
    /\ wg = 0
    /\ spawned = nWorkers
    /\ \A w \in Workers : ~Running(w)
    /\ opc # "running"

\* C9: under fair scheduling, with f returning, a call that enters
\* jacobianConcurrent returns, every worker and the origin task having
\* finished; the channel is closed only after the last enqueue, and no state
\* of jacobianConcurrent short of its return is a deadlock.
ConcurrentTerminates ==
    /\ (pc = "zero") ~> Returned
    /\ [](closed => pi > Len(Stencil))
    /\ [](pc \in {"call", "panic", "done"}
            \/ ENABLED (Orchestrate \/ OriginEval \/ \E w \in Workers : Worker(w)))

\* the enqueue loop is blocked on a full channel
ConcurrentTerminatesWitness ==
    /\ pc = "feed"
    /\ pi <= Len(Stencil)
    /\ nWorkers >= 2
    /\ Len(jobs) = nWorkers

\* what Jacobian does for the settings st, gomaxprocs being 1 or more: the
\* panic, or the return of the serial evaluator
SerialOutcome(st) ==
    LET s == ResolveSettings(st)
        r == jacobianSerial(dstEntry, f, x, s.OriginValue, ResolveFormula(s),
                            ResolveStep(s))
    IN  IF PanicOf(dstEntry, x, st) # ""
        THEN [pc |-> "panic", panicMsg |-> PanicOf(dstEntry, x, st),
              dst |-> dstEntry, fseq |-> <<>>]
        ELSE [pc |-> "done", panicMsg |-> "", dst |-> r.dst, fseq |-> r.fseq]

\* C10: a call with nil settings ends as the call with the explicit default
\* settings (Forward, Forward's step, no precomputed origin, not concurrent)
\* ends: the same panic or return, the same invocations of f in the same
\* order and the same dst.
NilSettingsAreDefaults ==
    (settings.isNil /\ pc # "call")
        => /\ nWorkers = (IF pc = "panic" THEN 0 ELSE 1)
           /\ [pc |-> pc, panicMsg |-> panicMsg, dst |-> dst, fseq |-> fseq]
                = SerialOutcome(DefaultSettings)

\* a call with nil settings has returned a matrix of two columns
NilSettingsAreDefaultsWitness ==
    /\ settings.isNil
    /\ pc = "done"
    /\ Len(x) = 2
    /\ Len(fseq) = 3

\* every worker that was started and the origin task, if one was started,
\* have called wg.Done(), and the channel is closed and empty
BarrierPassed ==
    /\ wg = 0
    /\ spawned = nWorkers
    /\ \A w \in Workers : wpc[w] \in {"unborn", "done"}
    /\ opc # "running"
    /\ closed
    /\ jobs = <<>>

\* what the origin adds to row i of every column in the fold
FoldTerm(i) == IF hasOrigin THEN originCoeff * origin.val[i] ELSE 0

\* entry (i, j) of dst is num / den, in these very terms
EntriesAre(num(_, _), den) ==
    \A j \in 1..Cols(dst) : \A i \in 1..NRows : dst[j][i] = Rat(num(j, i), den)

\* C12: in jacobianConcurrent the fold of the origin and the scaling by
\* 1/step come only after the barrier: from wg.Wait() on, every worker and the
\* origin task have finished; no entry is scaled before; at the fold dst
\* holds the accumulated perturbed sums alone, after it these plus the
\* weighted origin, and on return that sum over step, scaled once; the origin
\* is written by the task before the barrier only.
FoldAndScaleAfterBarrier ==
    (nWorkers # 1 /\ pc \notin {"call", "panic", "zero"})
        => LET acc(j, i) == PerturbedSum(j, i, Len(Stencil))
               folded(j, i) == acc(j, i) + FoldTerm(i)
           IN  /\ pc \in {"fold", "scale", "done"} => BarrierPassed
               /\ opc = "running" => pc \in {"close", "wait"}
               /\ pc \in {"feed", "close", "wait"} =>
                      \A j \in 1..Cols(dst) : \A i \in 1..NRows : dst[j][i].den = 1
               /\ pc = "fold" => EntriesAre(acc, 1)
               /\ pc = "scale" => EntriesAre(folded, 1)
               /\ pc = "done" => EntriesAre(folded, step)

\* the barrier has been passed by three workers and the origin task, and the
\* origin is about to be folded into two columns
FoldAndScaleAfterBarrierWitness ==
    /\ pc = "fold"
    /\ hasOrigin
    /\ opc = "done"
    /\ nWorkers = 3
    /\ Len(x) = 2
    /\ step > 1

\* the Job of column j and stencil point k
JobOf(j, k) == [j |-> j, pt |-> Stencil[k]]

\* the pairs (column, index of a non-origin stencil point)
JobPairs ==
    {p \in (1..Cols(dst)) \X (1..Len(Stencil)) : Stencil[p[2]].Loc # 0}

\* the enqueue loop has gone past the pair (j, k)
LoopPast(j, k) == k < pi \/ (k = pi /\ j < pj)

\* the Job of (j, k) is in the channel
InChannel(j, k) == \E q \in 1..Len(jobs) : jobs[q] = JobOf(j, k)

\* worker w has received a Job and not yet added its result
Busy(w) == wpc[w] \in {"inF", "lock", "locked"}

\* a worker has received the Job of (j, k) and not yet added its result
Held(j, k) == \E w \in Workers : Busy(w) /\ wjob[w] = JobOf(j, k)

\* the times the Job of (j, k) has been received
Received(j, k) == ncalls[<<j, Stencil[k].Loc>>]

\* the result of the Job of (j, k) has been added: the Job has been received
\* by a worker that holds it no longer
Added(j, k) == Received(j, k) = 1 /\ ~Held(j, k)

\* a column of zeros with weight * f(x + offset*step*e_j) added to it once
\* for every non-origin point k..1 whose result has been added
RECURSIVE AddedCol(_, _)
AddedCol(j, k) ==
    IF k = 0 THEN [i \in 1..NRows |-> Rat(0, 1)]
    ELSE IF Stencil[k].Loc = 0 \/ ~Added(j, k) THEN AddedCol(j, k - 1)
    ELSE AddScaledVec(AddedCol(j, k - 1), Stencil[k].Coeff,
                      F(f, Perturb(x, j, Stencil[k].Loc, step)))

\* the Job of a pair the enqueue loop has passed, and of no other, is in the
\* channel, once, or has been received, once, never both; a Job in the
\* channel or held by a worker is the Job of a (column, non-origin point)
\* pair, and no two workers hold the same; dst holds the results of the Jobs
\* received and held no longer, each added once; at the fold every Job has
\* been received
JobsAccounted ==
    (nWorkers # 1 /\ pc \in {"feed", "close", "wait", "fold"})
        => /\ \A j \in 1..Cols(dst) : \A k \in 1..Len(Stencil) :
                 Stencil[k].Loc # 0 =>
                    /\ Received(j, k) <= 1
                    /\ LoopPast(j, k) <=> (InChannel(j, k) \/ Received(j, k) = 1)
                    /\ ~(InChannel(j, k) /\ Received(j, k) = 1)
                    /\ Held(j, k) => Received(j, k) = 1
                    /\ pc = "fold" => Received(j, k) = 1
           /\ \A q \in 1..Len(jobs) :
                 /\ jobs[q].j \in 1..Cols(dst)
                 /\ jobs[q].pt.Loc # 0
                 /\ \E k \in 1..Len(Stencil) : jobs[q].pt = Stencil[k]
                 /\ \A r \in 1..(q - 1) : jobs[r] # jobs[q]
           /\ \A w \in Workers :
                 Busy(w) =>
                    /\ wjob[w].j \in 1..Cols(dst)
                    /\ wjob[w].pt.Loc # 0
                    /\ \E k \in 1..Len(Stencil) : wjob[w].pt = Stencil[k]
                    /\ \A v \in Workers \ {w} : Busy(v) => wjob[v] # wjob[w]
           /\ \A j \in 1..Cols(dst) : ncalls[<<j, 0>>] = 0
           /\ \A j \in 1..Cols(dst) : dst[j] = AddedCol(j, Len(Stencil))

\* a step that changes the channel sends the Job of the pair the enqueue loop
\* is at, or hands the first Job of the channel to one worker, which goes on
\* to evaluate f for it; a worker lets go of its Job by adding weight *
\* f(x + offset*step*e_j) to column j
JobMoves ==
    /\ jobs' # jobs =>
          \/ /\ pc = "feed"
             /\ pi <= Len(Stencil)
             /\ Stencil[pi].Loc # 0
             /\ jobs' = Append(jobs, JobOf(pj, pi))
             /\ wjob' = wjob
          \/ \E w \in Workers :
                /\ wpc[w] = "recv" /\ wpc'[w] = "inF"
                /\ jobs' = Tail(jobs)
                /\ wjob' = [wjob EXCEPT ![w] = Head(jobs)]
                /\ \A v \in Workers \ {w} : wpc'[v] = wpc[v]
    /\ \A w \in Workers :
          (wjob[w] # NoJob /\ wjob'[w] # wjob[w]) =>
             /\ wjob'[w] = NoJob
             /\ dst' = [dst EXCEPT ![wjob[w].j] =
                           AddScaledVec(@, wjob[w].pt.Coeff,
                               F(f, Perturb(x, wjob[w].j, wjob[w].pt.Loc, step)))]

\* C13: in jacobianConcurrent the Job of a (column, non-origin point) pair is
\* sent once, when the enqueue loop passes the pair, and no Job is sent for an
\* origin point; a Job that was sent is in the channel or has been received,
\* by one worker; a received Job is held by that worker or its weighted
\* result has been added to its column, once; and once the barrier is passed
\* every Job has been received and added.
EveryJobOnce == [](JobsAccounted) /\ [][JobMoves]_vars

\* the channel was closed with a Job still in it, while one worker is adding
\* the result of another Job
EveryJobOnceWitness ==
    /\ closed
    /\ jobs # <<>>
    /\ \E w \in Workers : wpc[w] = "locked"
    /\ Cardinality(JobPairs) = 4

\* C14: a call that went through jacobianConcurrent has started at most as
\* many workers as Jobs were sent on the channel, one per (column, non-origin
\* point) pair.
WorkersWithinJobs ==
    (nWorkers # 1 /\ pc \in {"close", "wait", "fold", "scale", "done"})
        => spawned <= Cardinality(JobPairs)

\* the invocations of f made for the keys of the set ks
RECURSIVE SumCalls(_)
SumCalls(ks) ==
    IF ks = {} THEN 0
    ELSE LET k == CHOOSE q \in ks : TRUE
         IN  ncalls[k] + SumCalls(ks \ {k})

\* C15: when a call returns, through either evaluator, f has been invoked
\* evals times in all, evals being n * |stencil| - (n - 1 if the stencil has
\* an origin point).
InvocationsEqualEvals ==
    pc = "done"
        => /\ evals = EvalsOf(Len(x), Stencil)
           /\ SumCalls(Keys) = evals

\* the columns whose mutex is held
HeldLocks == {j \in 1..MaxN : mu[j]}

\* the workers between mu[job.j].Lock() and mu[job.j].Unlock()
Adding == {w \in Workers : wpc[w] = "locked"}

\* the mutexes are held by the workers inside the accumulate-add, one each:
\* none by a worker that waits on the channel, evaluates f or has returned,
\* and none once the barrier is passed
LocksOnlyWhileAdding ==
    /\ Cardinality(HeldLocks) = Cardinality(Adding)
    /\ \A w \in Adding : mu[wjob[w].j]
    /\ pc \in {"fold", "scale", "done"} => HeldLocks = {}

\* a mutex is taken by a step that does nothing else, and is released by the
\* step of its holder that makes the one add to its column; a worker that
\* leaves the accumulate-add leaves its mutex free
LockAroundOneAdd ==
    /\ \A j \in 1..MaxN :
         /\ (~mu[j] /\ mu'[j]) =>
                /\ dst' = dst
                /\ \E w \in Workers :
                      wpc[w] = "lock" /\ wjob[w].j = j /\ wpc'[w] = "locked"
         /\ (mu[j] /\ ~mu'[j]) =>
                \E w \in Adding :
                    /\ wjob[w].j = j
                    /\ wpc'[w] = "recv"
                    /\ dst'[j] = AddScaledVec(dst[j], wjob[w].pt.Coeff, wy[w])
    /\ \A w \in Adding : wpc'[w] # "locked" => ~mu'[wjob[w].j]

\* C16: a worker holds the mutex of a column only around one accumulate-add:
\* never while it evaluates f or waits on the channel, never two at once; it
\* releases the mutex with the add; every mutex is free once the barrier is
\* passed.
LockHeldForOneAdd == [](LocksOnlyWhileAdding) /\ [][LockAroundOneAdd]_vars

\* two workers are inside the accumulate-add of different columns while a
\* third evaluates f
LockHeldForOneAddWitness ==
    /\ Cardinality(Adding) = 2
    /\ Cardinality(HeldLocks) = 2
    /\ \E w \in Workers : wpc[w] = "inF"

\* the call ran jacobianSerial and returned: no worker or origin task was
\* started, no channel closed, no mutex taken, and SetCol wrote the columns
\* 1..n in this order
SerialPath ==
    /\ pc = "done"
    /\ spawned = 0
    /\ \A w \in Workers : wpc[w] = "unborn" /\ wbuf[w] = NoBufs
    /\ opc = "none"
    /\ wg = 0
    /\ jobs = <<>>
    /\ ~closed
    /\ HeldLocks = {}
    /\ cols = [k \in 1..Len(x) |-> k]

\* the call is inside jacobianConcurrent, or has returned from it
ConcurrentPath ==
    \/ pc \in {"zero", "feed", "close", "wait", "fold", "scale"}
    \/ pc = "done" /\ closed /\ cols = <<>>

\* min(runtime.GOMAXPROCS(0), evals) for the arguments of the call
PoolSize ==
    LET ev == EvalsOf(Len(x), Resolved.Stencil.val)
    IN  IF gomaxprocs < ev THEN gomaxprocs ELSE ev

\* C17: a call that has passed the validation is in the serial evaluator
\* exactly when nWorkers = 1 and in the concurrent one otherwise; without
\* settings.Concurrent it is always serial, with it it is serial exactly
\* when min(GOMAXPROCS, evals) = 1; the serial path starts no worker and no
\* origin task, takes no mutex and writes the columns in order.
SerialIffOneWorker ==
    pc \notin {"call", "panic"}
        => /\ nWorkers = 1 <=> SerialPath
           /\ nWorkers # 1 <=> ConcurrentPath
           /\ ~S.Concurrent => SerialPath
           /\ S.Concurrent => (SerialPath <=> PoolSize = 1)

\* a call with settings.Concurrent and three evaluations to make returned
\* from the serial evaluator, min(GOMAXPROCS, evals) being 1
SerialIffOneWorkerWitness ==
    /\ S.Concurrent
    /\ SerialPath
    /\ PoolSize = 1
    /\ evals = 3

\* dst with every entry the caller left in it replaced by another number
OtherEntry == [j \in 1..Cols(dstEntry) |-> [i \in 1..NRows |-> Rat(-3, 1)]]

\* C18: jacobianConcurrent has set every entry of dst to zero when the first
\* worker is started, and no worker exists while it does; jacobianSerial
\* writes every column; the matrix either of them returns is the one
\* computed from f, x, the origin, the formula and the step alone: the one a
\* call on a dst with other contents returns.
ResultIgnoresEntry ==
    /\ (nWorkers # 1 /\ pc = "zero") =>
          /\ dst = dstEntry
          /\ spawned = 0
          /\ \A w \in Workers : wpc[w] = "unborn"
    /\ (nWorkers # 1 /\ pc = "feed" /\ SumCalls(Keys) = 0) =>
          \A j \in 1..Cols(dst) : \A i \in 1..NRows : dst[j][i] = Rat(0, 1)
    /\ ConcurrentDone =>
          \A j \in 1..Cols(dst) : \A i \in 1..NRows :
              RatEq(dst[j][i],
                    Rat(PerturbedSum(j, i, Len(Stencil)) + FoldTerm(i), step))
    /\ SerialDone =>
          /\ \A j \in 1..Cols(dst) : \E q \in 1..Len(cols) : cols[q] = j
          /\ dst = jacobianSerial(OtherEntry, f, x, S.OriginValue, formula, step).dst

\* three workers have been started on a dst of two columns that the caller
\* left filled with numbers other than zero, and no Job has been received
ResultIgnoresEntryWitness ==
    /\ pc = "feed"
    /\ spawned = 3
    /\ SumCalls(Keys) = 0
    /\ Len(x) = 2
    /\ \A j \in 1..Cols(dstEntry) : \A i \in 1..NRows : dstEntry[j][i].num # 0

\* the invocations of f in progress: the routine that made the call, the
\* slice passed as output and the slice passed as input (lines 393, 426)
InProgress ==
    {[routine |-> w, out |-> wbuf[w].y, in |-> wbuf[w].xcopy] :
        w \in {v \in Workers : wpc[v] = "inF"}}
      \cup (IF opc = "running"
            THEN {[routine |-> 0, out |-> obuf.y, in |-> obuf.xcopy]}
            ELSE {})

\* C19: the invocations of f in progress at one time are given slices that
\* are pairwise distinct, as outputs and as inputs: each routine passes the
\* two slices it made itself, and none of them is x or belongs to dst.
PrivateBuffers ==
    /\ \A a, b \in InProgress :
          a.routine # b.routine => {a.out, a.in} \cap {b.out, b.in} = {}
    /\ \A a \in InProgress :
          /\ a.out # a.in
          /\ {a.out, a.in} \cap CallerBufs = {}
          /\ a.out.id = a.routine /\ a.in.id = a.routine
          /\ a.out.routine = (IF a.routine = 0 THEN "origin" ELSE "worker")
          /\ a.in.routine = a.out.routine

\* two workers and the origin task are inside f at once
PrivateBuffersWitness ==
    /\ Cardinality(InProgress) = 3
    /\ opc = "running"

\* arg is x with offset * step added to coordinate j, and to no other (j = 0:
\* arg is x)
PerturbedAt(arg, j, loc) ==
    /\ Len(arg) = Len(x)
    /\ \A k \in 1..Len(x) : arg[k] = x[k] + (IF k = j THEN loc * step ELSE 0)

\* the Jobs the workers have received
JobsReceived == SumCalls(Keys) - ncalls[<<0, 0>>]

\* C20: Jacobian leaves x and the settings, with a supplied OriginValue, as
\* the caller passed them; every invocation of f, in jacobianSerial, in a
\* worker and in the origin task, receives x with offset * step added to
\* coordinate j alone, whatever the earlier evaluations and f itself did to
\* the slice; the origin the evaluators fold is the supplied one or f(x).
InputsUntouched ==
    /\ [][x' = x /\ settings' = settings]_vars
    /\ [](/\ \A q \in 1..Len(fseq) :
                 PerturbedAt(fseq[q].arg, fseq[q].j, fseq[q].loc)
          /\ \A w \in Workers :
                 wpc[w] = "inF" => PerturbedAt(wxcopy[w], wjob[w].j, wjob[w].pt.Loc)
          /\ opc = "done" => origin = Slice(F(f, x))
          /\ (~S.OriginValue.isNil /\ pc \notin {"call", "panic"})
                 => origin = S.OriginValue)

\* one of two workers is inside f with the third Job or a later one, so with
\* a slice that held an earlier perturbation and that f has overwritten
InputsUntouchedWitness ==
    /\ f = "scribble"
    /\ nWorkers = 2
    /\ JobsReceived >= 3
    /\ \E w \in Workers : wpc[w] = "inF" /\ wxcopy[w] # x

(***************************************************************************)
(* Properties of Copy and CopyWeighted.                                    *)
(***************************************************************************)
\* the number of entries of the record of calls equal to c
NCalls(c) == Cardinality({q \in 1..Len(calls) : calls[q] = c})

\* the entries of the record of calls that set an edge
EdgeCalls == {q \in 1..Len(calls) : calls[q].op = "SetEdge"}

\* the edge Copy is to set from u to v
CopiedEdge(u, v) ==
    IF weighted THEN NewWeightedEdge(u, v, WeightOf(gsrc, u, v)) ELSE NewEdge(u, v)

\* every node of src has been added by one call of AddNode
AllNodesAdded ==
    \A n \in gsrc.nodes : NCalls(Call("AddNode", NewEdge(n, n))) = 1

\* a step of Copy keeps every node and every pair of joined nodes of dst
NothingRemoved ==
    /\ gdst.nodes \subseteq gdst'.nodes
    /\ \A e \in gdst.edges : \E d \in gdst'.edges : d.F = e.F /\ d.T = e.T

\* C11: Copy and CopyWeighted remove nothing from dst; AddNode is called once
\* for every node of src before any edge is set, and at most once at any
\* time; on return exactly one edge has been set for every u and every v in
\* src.From(u), with the weight of src's edge for CopyWeighted, and no other;
\* when AddNode panics no edge has been set and the edges of dst are those it
\* had on entry
CopyAddsNodesThenEdges ==
    /\ [][NothingRemoved]_vars
    /\ [](/\ \A n \in gsrc.nodes : NCalls(Call("AddNode", NewEdge(n, n))) <= 1
          /\ EdgeCalls # {} => AllNodesAdded
          /\ \A q \in EdgeCalls :
                 /\ calls[q].e.T \in From(gsrc, calls[q].e.F)
                 /\ calls[q].e = CopiedEdge(calls[q].e.F, calls[q].e.T)
                 /\ NCalls(calls[q]) = 1
          /\ gpc = "done" =>
                 /\ AllNodesAdded
                 /\ \A u \in gsrc.nodes : \A v \in From(gsrc, u) :
                        /\ NCalls(Call("SetEdge", CopiedEdge(u, v))) = 1
                        /\ CopiedEdge(u, v) \in gdst.edges
                 /\ gdstEntry.nodes \subseteq gdst.nodes
          /\ gpc = "panic" =>
                 /\ EdgeCalls = {}
                 /\ gdst.edges = gdstEntry.edges
                 /\ calls[Len(calls)].e.F \in gdstEntry.nodes)

\* CopyWeighted returns having set edges, on a destination that was not empty
CopyAddsNodesThenEdgesWitness ==
    /\ gpc = "done"
    /\ weighted
    /\ Cardinality(EdgeCalls) >= 2
    /\ gdstEntry.edges # {}

====
